---- MODULE Spec2Model ----
(***************************************************************************)
(* Model of scripts/brc_benchmark1_cell.py: the copy-first-input benchmark.*)
(*                                                                         *)
(* main() is a single sequential procedure.  Its state is the set of its   *)
(* local variables, the global numpy random generator, and the checkpoint  *)
(* and result files it writes.  pc is the position of control in main().   *)
(*                                                                         *)
(* Numbers.  Losses are non-negative reals; they are represented in        *)
(* hundredths (0.1 is 10) and the running averages are exact rationals     *)
(* [n, d] kept in lowest terms; np.inf is the rational 1/0.  Sample values *)
(* are integers standing for float64 values; the float32 cast drops the    *)
(* lowest bit.                                                             *)
(*                                                                         *)
(* Scaling.  The dataset size (50000), the test size (5000), the batch     *)
(* size (100) and the epoch budget (60) are scaled down; every formula is  *)
(* stated in terms of these names, not of their values.  The lags zs are   *)
(* the program's own.                                                      *)
(***************************************************************************)
EXTENDS Integers, Sequences, FiniteSets, TLC

VARIABLES
    pc,                      \* position of control in main()
    rng,                     \* state of numpy's global random generator
    cell_name,               \* CLI argument
    z,                       \* loop variable of `for z in zs`
    zpos,                    \* position of the iterator of `for z in zs`
    line,                    \* main: line (index into the plot line styles)
    save_here,               \* checkpoint path of the current lag
    inputs, outputs,         \* generated samples and labels
    inputs_train, inputs_test, outputs_train, outputs_test,
    training_loader, test_loader,
    model,                   \* the network: mode and number of updates applied
    optimiser,               \* Adam: number of step() calls
    min_loss,
    e,                       \* loop variable of `for e in range(epochs)`
    idx,                     \* enumerate(loader): index of the next batch of the pass
    grad_iterations,
    train_allepochs_losses, test_allepochs_losses,
    train_epochs_avg_losses, test_epochs_avg_losses,
    train_loss_epoch_avg, test_loss_epoch_avg,
    train_loss, test_loss,   \* loss of the last training / test batch
    files,                   \* model_path: checkpoint path -> checkpoint
    results,                 \* results_path: file name -> saved array
    epoch_log                \* history: batches processed in the current epoch

vars == << pc, rng, cell_name, z, zpos, line, save_here, inputs, outputs,
           inputs_train, inputs_test, outputs_train, outputs_test,
           training_loader, test_loader, model, optimiser, min_loss, e, idx,
           grad_iterations, train_allepochs_losses, test_allepochs_losses,
           train_epochs_avg_losses, test_epochs_avg_losses,
           train_loss_epoch_avg, test_loss_epoch_avg, train_loss, test_loss,
           files, results, epoch_log >>

-----------------------------------------------------------------------------
(* Bounds and program constants *)

\* range(50000) of the sample loop, scaled
NumSamples == 5
\* test_size = 5000, scaled
test_size == 2
\* batch_size=100 of both loaders, scaled
batch_size == 1
\* epochs = 60, scaled
epochs == 3
\* largest lag tried on generate_sample alone
MaxLag == 6
\* the early-stop threshold 0.1, in hundredths
Threshold == 10

zs == << 5, 100, 300 >>

\* cell_name: main() branches on it only at `if cell_name == "LSTM"`, so one
\* name of each branch is tried
CellNames == { "LSTM", "BRC" }

\* losses a batch can produce, in hundredths.  With two test batches the
\* epoch averages 0, 10 and 20 fall below, at and above the threshold.  The
\* training loss feeds no decision of main().
TrainLossValues == { 30 }
TestLossValues == { 0, 20 }

\* states of the random generator, and the seeds a run of main() may start from
RngStates == 0 .. 15
Seeds == { 0, 9 }

None == "None"

-----------------------------------------------------------------------------
(* Rationals: the float arithmetic of the running averages *)

RECURSIVE GCD(_, _)
GCD(a, b) == IF b = 0 THEN a ELSE GCD(b, a % b)

Rat(n, d) ==
    IF d = 0 THEN [n |-> 1, d |-> 0]
    ELSE LET g == GCD(n, d) IN [n |-> n \div g, d |-> d \div g]

Inf == [n |-> 1, d |-> 0]

\* a < b on floats
Less(a, b) == a.n * b.d < b.n * a.d

\* (avg * idx + loss) / (idx + 1)
RunningAvg(avg, i, loss) == Rat(avg.n * i + loss * avg.d, avg.d * (i + 1))

-----------------------------------------------------------------------------
(* numpy *)

\* one draw of np.random.randn from generator state s
Draw(s) == (s % 8) - 4
Advance(s) == (5 * s + 3) % 16

\* np.random.randn(k), k >= 0: k successive draws and the generator state
\* after them (the first half of the draws, then the rest)
RECURSIVE randn(_, _)
randn(k, s) ==
    IF k = 0 THEN [arr |-> << >>, rng |-> s]
    ELSE IF k = 1 THEN [arr |-> << Draw(s) >>, rng |-> Advance(s)]
    ELSE LET a == randn(k \div 2, s)
             b == randn(k - (k \div 2), a.rng)
         IN  [arr |-> a.arr \o b.arr, rng |-> b.rng]

\* .astype(np.float32)
Float32(v) == 2 * (v \div 2)

\* a[:k] and a[k:] with Python's treatment of negative and out-of-range k
SliceStop(a, k) ==
    LET stop == IF k < 0 THEN (IF Len(a) + k < 0 THEN 0 ELSE Len(a) + k)
                ELSE (IF k > Len(a) THEN Len(a) ELSE k)
    IN  SubSeq(a, 1, stop)
SliceStart(a, k) ==
    LET start == IF k < 0 THEN (IF Len(a) + k < 0 THEN 0 ELSE Len(a) + k)
                 ELSE (IF k > Len(a) THEN Len(a) ELSE k)
    IN  SubSeq(a, start + 1, Len(a))

-----------------------------------------------------------------------------
(* generate_sample *)

\* variant: the label is read from the end of the sequence
generate_sample_LastLabel(n, s) ==
    LET true_n == Draw(s)
        s1 == Advance(s)
    IN  IF n - 1 < 0
        THEN [ok |-> FALSE, error |-> "ValueError", rng |-> s1]
        ELSE LET r == randn(n - 1, s1)
                 chain == << true_n >> \o r.arr
             IN  [ok |-> TRUE, chain |-> chain,
                  true_n |-> chain[Len(chain)], rng |-> r.rng]

\* variant: n noise values instead of n - 1
generate_sample_ExtraNoise(n, s) ==
    LET true_n == Draw(s)
        s1 == Advance(s)
    IN  IF n < 0
        THEN [ok |-> FALSE, error |-> "ValueError", rng |-> s1]
        ELSE LET r == randn(n, s1)
             IN  [ok |-> TRUE, chain |-> << true_n >> \o r.arr,
                  true_n |-> true_n, rng |-> r.rng]

generate_sample(n, s) ==
    LET true_n == Draw(s)
        s1 == Advance(s)
    IN  IF n - 1 < 0
        THEN [ok |-> FALSE, error |-> "ValueError", rng |-> s1]
        ELSE LET r == randn(n - 1, s1)
             IN  [ok |-> TRUE, chain |-> << true_n >> \o r.arr,
                  true_n |-> true_n, rng |-> r.rng]

-----------------------------------------------------------------------------
(* brc_pytorch.datasets.BRCDataset and torch.utils.data.DataLoader *)

\* BRCDataset(x, y): the samples paired with their labels; len() is len(x)
BRCDataset(x, y) == [x |-> x, y |-> y]

\* DataLoader(dataset, batch_size=b): the batches of one pass, each the
\* dataset indices it holds; the last batch may be short (drop_last=False).
\* shuffle=True permutes the indices of a pass: a batch's contents reach the
\* program only through the loss, which is drawn freely below.
DataLoader(dataset, b) ==
    LET n == Len(dataset.x)
        nb == (n + b - 1) \div b
    IN  [k \in 1 .. nb |->
            [j \in 1 .. (IF k * b <= n THEN b ELSE n - (k - 1) * b) |->
                (k - 1) * b + j]]

-----------------------------------------------------------------------------
(* Files *)

\* variant: the path leaves out the lag
CheckpointPath_NoLag(cell, lag) == << cell >>

\* os.path.join(model_path, f'{cell_name}_{z}')
CheckpointPath(cell, lag) == << cell, lag >>

\* f.write: the file at path p now holds content c
Write(fs, p, c) ==
    [q \in (DOMAIN fs) \cup {p} |-> IF q = p THEN c ELSE fs[q]]

\* variant: the epoch is stored 1-based
Checkpoint_NextEpoch ==
    [epoch |-> e + 1,
     model_state_dict |-> model.updates,
     optimizer_state_dict |-> optimiser.steps,
     train_loss |-> train_loss,
     test_loss |-> test_loss]

\* the dictionary handed to torch.save
Checkpoint ==
    [epoch |-> e,
     model_state_dict |-> model.updates,
     optimizer_state_dict |-> optimiser.steps,
     train_loss |-> train_loss,
     test_loss |-> test_loss]

-----------------------------------------------------------------------------
(* main *)

Init ==
    /\ pc = "main"
    /\ rng \in Seeds
    /\ cell_name \in CellNames
    /\ z = None /\ zpos = None /\ line = None /\ save_here = None
    /\ inputs = None /\ outputs = None
    /\ inputs_train = None /\ inputs_test = None
    /\ outputs_train = None /\ outputs_test = None
    /\ training_loader = None /\ test_loader = None
    /\ model = None /\ optimiser = None /\ min_loss = None
    /\ e = None /\ idx = None /\ grad_iterations = None
    /\ train_allepochs_losses = None /\ test_allepochs_losses = None
    /\ train_epochs_avg_losses = None /\ test_epochs_avg_losses = None
    /\ train_loss_epoch_avg = None /\ test_loss_epoch_avg = None
    /\ train_loss = None /\ test_loss = None
    /\ files = << >>
    /\ results = << >>
    /\ epoch_log = << >>

dataVars == << inputs, outputs, inputs_train, inputs_test, outputs_train,
               outputs_test, training_loader, test_loader >>
histVars == << train_allepochs_losses, test_allepochs_losses,
               train_epochs_avg_losses, test_epochs_avg_losses >>
lagVars == << cell_name, z, zpos, line, save_here >>

\* lines 61-97: logging, figure, cell lookup, line = 0; the iterator over zs
Begin ==
    /\ pc = "main"
    /\ line' = 0
    /\ zpos' = 0
    /\ pc' = "for_z"
    /\ UNCHANGED << rng, cell_name, z, save_here, dataVars, model, optimiser,
                    min_loss, e, idx, grad_iterations, histVars,
                    train_loss_epoch_avg, test_loss_epoch_avg, train_loss,
                    test_loss, files, results, epoch_log >>

\* lines 99-109: the next lag, its checkpoint path, empty sample lists
LagStart ==
    /\ pc = "for_z"
    /\ zpos < Len(zs)
    /\ zpos' = zpos + 1
    /\ z' = zs[zpos + 1]
    /\ save_here' = CheckpointPath(cell_name, z')
    /\ model' = None
    /\ inputs' = << >>
    /\ outputs' = << >>
    /\ pc' = "gen"
    /\ UNCHANGED << rng, cell_name, line, inputs_train, inputs_test,
                    outputs_train, outputs_test, training_loader, test_loader,
                    optimiser, min_loss, e, idx, grad_iterations, histVars,
                    train_loss_epoch_avg, test_loss_epoch_avg, train_loss,
                    test_loss, files, results, epoch_log >>

\* lines 111-114: one iteration of the sample loop (len(inputs) is i)
GenerateStep ==
    /\ pc = "gen"
    /\ Len(inputs) < NumSamples
    /\ LET r == generate_sample(z, rng)
       IN  /\ rng' = r.rng
           /\ IF r.ok
              THEN /\ inputs' = Append(inputs, r.chain)
                   /\ outputs' = Append(outputs, r.true_n)
                   /\ pc' = "gen"
              ELSE /\ pc' = "error"
                   /\ UNCHANGED << inputs, outputs >>
    /\ UNCHANGED << lagVars, inputs_train, inputs_test, outputs_train,
                    outputs_test, training_loader, test_loader, model,
                    optimiser, min_loss, e, idx, grad_iterations, histVars,
                    train_loss_epoch_avg, test_loss_epoch_avg, train_loss,
                    test_loss, files, results, epoch_log >>

\* np.expand_dims(inputs, axis=2).astype(np.float32)
ExpandInputs(a) ==
    [k \in 1 .. Len(a) |-> [t \in 1 .. Len(a[k]) |-> << Float32(a[k][t]) >>]]
\* np.expand_dims(outputs, axis=1).astype(np.float32)
ExpandOutputs(a) == [k \in 1 .. Len(a) |-> << Float32(a[k]) >>]

\* variant: a[test_size:]
TestPart_Positive(a) == SliceStart(a, test_size)

\* a[:-test_size] and a[-test_size:]
TrainPart(a) == SliceStop(a, 0 - test_size)
TestPart(a) == SliceStart(a, 0 - test_size)

\* lines 116-137: the arrays, the split at -test_size, datasets and loaders
Split ==
    /\ pc = "gen"
    /\ Len(inputs) = NumSamples
    /\ inputs_train' = TrainPart(ExpandInputs(inputs))
    /\ inputs_test' = TestPart(ExpandInputs(inputs))
    /\ outputs_train' = TrainPart(ExpandOutputs(outputs))
    /\ outputs_test' = TestPart(ExpandOutputs(outputs))
    /\ training_loader' =
           DataLoader(BRCDataset(inputs_train', outputs_train'), batch_size)
    /\ test_loader' =
           DataLoader(BRCDataset(inputs_test', outputs_test'), batch_size)
    /\ pc' = "setup"
    /\ UNCHANGED << rng, lagVars, inputs, outputs, model, optimiser, min_loss,
                    e, idx, grad_iterations, histVars, train_loss_epoch_avg,
                    test_loss_epoch_avg, train_loss, test_loss, files,
                    results, epoch_log >>

\* variant: min_loss = 0
InitialMinLoss_Zero == Rat(0, 1)

\* min_loss = np.inf
InitialMinLoss == Inf

\* variant: the counter of gradient iterations starts at 1
Setup_CounterFromOne ==
    /\ pc = "setup"
    /\ model' = [training |-> TRUE, updates |-> 0]
    /\ optimiser' = [steps |-> 0]
    /\ min_loss' = Inf
    /\ train_allepochs_losses' = << >>
    /\ test_allepochs_losses' = << >>
    /\ train_epochs_avg_losses' = << >>
    /\ test_epochs_avg_losses' = << >>
    /\ grad_iterations' = 1
    /\ IF 0 < epochs
       THEN e' = 0 /\ pc' = "epoch"
       ELSE e' = e /\ pc' = "lag_end"
    /\ UNCHANGED << rng, cell_name, z, zpos, line, save_here, inputs, outputs,
                    inputs_train, inputs_test, outputs_train, outputs_test,
                    training_loader, test_loader, idx, train_loss_epoch_avg,
                    test_loss_epoch_avg, train_loss, test_loss, files,
                    results, epoch_log >>

\* lines 140-177: a fresh network and optimiser, min_loss, empty histories
Setup ==
    /\ pc = "setup"
    /\ model' = [training |-> TRUE, updates |-> 0]
    /\ optimiser' = [steps |-> 0]
    /\ min_loss' = InitialMinLoss
    /\ train_allepochs_losses' = << >>
    /\ test_allepochs_losses' = << >>
    /\ train_epochs_avg_losses' = << >>
    /\ test_epochs_avg_losses' = << >>
    /\ grad_iterations' = 0
    /\ IF 0 < epochs
       THEN e' = 0 /\ pc' = "epoch"
       ELSE e' = e /\ pc' = "lag_end"
    /\ UNCHANGED << rng, lagVars, dataVars, idx, train_loss_epoch_avg,
                    test_loss_epoch_avg, train_loss, test_loss, files,
                    results, epoch_log >>

\* lines 179-183: start of epoch e, the training loader's iterator
EpochStart ==
    /\ pc = "epoch"
    /\ train_loss_epoch_avg' = Rat(0, 1)
    /\ model' = [model EXCEPT !.training = TRUE]
    /\ idx' = 0
    /\ epoch_log' = << >>
    /\ pc' = "train"
    /\ UNCHANGED << rng, lagVars, dataVars, optimiser, min_loss, e,
                    grad_iterations, histVars, test_loss_epoch_avg,
                    train_loss, test_loss, files, results >>

\* variant: a pass ends after its first batch
PassDone_AfterFirst(loader, i) == i >= 1

\* the loader's iterator is exhausted after i batches
PassDone(loader, i) == i = Len(loader)

\* lines 183-199: one training batch
TrainBatch ==
    /\ pc = "train"
    /\ ~PassDone(training_loader, idx)
    /\ \E loss \in TrainLossValues :
          /\ train_loss' = loss
          /\ train_allepochs_losses' = Append(train_allepochs_losses, loss)
          /\ train_loss_epoch_avg' = RunningAvg(train_loss_epoch_avg, idx, loss)
    /\ optimiser' = [optimiser EXCEPT !.steps = @ + 1]
    /\ model' = [model EXCEPT !.updates = @ + 1]
    /\ grad_iterations' = grad_iterations + 1
    /\ epoch_log' =
           Append(epoch_log, [pass |-> "train", batch |-> training_loader[idx + 1]])
    /\ idx' = idx + 1
    /\ UNCHANGED << pc, rng, lagVars, dataVars, min_loss, e,
                    test_allepochs_losses, train_epochs_avg_losses,
                    test_epochs_avg_losses, test_loss_epoch_avg, test_loss,
                    files, results >>

\* lines 201-209: end of the training pass, start of the evaluation pass
TrainEnd ==
    /\ pc = "train"
    /\ PassDone(training_loader, idx)
    /\ train_epochs_avg_losses' =
           Append(train_epochs_avg_losses, train_loss_epoch_avg)
    /\ model' = [model EXCEPT !.training = FALSE]
    /\ test_loss_epoch_avg' = Rat(0, 1)
    /\ idx' = 0
    /\ pc' = "test"
    /\ UNCHANGED << rng, lagVars, dataVars, optimiser, min_loss, e,
                    grad_iterations, train_allepochs_losses,
                    test_allepochs_losses, test_epochs_avg_losses,
                    train_loss_epoch_avg, train_loss, test_loss, files,
                    results, epoch_log >>

\* lines 209-219: one test batch
TestBatch ==
    /\ pc = "test"
    /\ ~PassDone(test_loader, idx)
    /\ \E loss \in TestLossValues :
          /\ test_loss' = loss
          /\ test_allepochs_losses' = Append(test_allepochs_losses, loss)
          /\ test_loss_epoch_avg' = RunningAvg(test_loss_epoch_avg, idx, loss)
    /\ epoch_log' =
           Append(epoch_log, [pass |-> "test", batch |-> test_loader[idx + 1]])
    /\ idx' = idx + 1
    /\ UNCHANGED << pc, rng, lagVars, dataVars, model, optimiser, min_loss, e,
                    grad_iterations, train_allepochs_losses,
                    train_epochs_avg_losses, test_epochs_avg_losses,
                    train_loss_epoch_avg, train_loss, files, results >>

\* variant: the checkpoint is also written on a tie
SaveIfBest_OnTie ==
    IF ~Less(min_loss, test_loss_epoch_avg)
    THEN /\ min_loss' = test_loss_epoch_avg
         /\ files' = Write(files, save_here, Checkpoint)
    ELSE UNCHANGED << min_loss, files >>

\* lines 224-234: the checkpoint decision
SaveIfBest ==
    IF Less(test_loss_epoch_avg, min_loss)
    THEN /\ min_loss' = test_loss_epoch_avg
         /\ files' = Write(files, save_here, Checkpoint)
    ELSE UNCHANGED << min_loss, files >>

\* variant: the loop is also left at the threshold itself
StopEarly_AtThreshold == ~Less(Rat(Threshold, 1), test_loss_epoch_avg)

\* lines 236-237: the early stop
StopEarly == Less(test_loss_epoch_avg, Rat(Threshold, 1))

\* lines 221-237 and the header of line 178: end of the evaluation pass, the
\* checkpoint, then break, the next epoch, or the end of range(epochs)
EpochEnd ==
    /\ pc = "test"
    /\ PassDone(test_loader, idx)
    /\ test_epochs_avg_losses' =
           Append(test_epochs_avg_losses, test_loss_epoch_avg)
    /\ SaveIfBest
    /\ IF StopEarly \/ e + 1 >= epochs
       THEN e' = e /\ pc' = "lag_end"
       ELSE e' = e + 1 /\ pc' = "epoch"
    /\ UNCHANGED << rng, lagVars, dataVars, model, optimiser, idx,
                    grad_iterations, train_allepochs_losses,
                    test_allepochs_losses, train_epochs_avg_losses,
                    train_loss_epoch_avg, test_loss_epoch_avg, train_loss,
                    test_loss, results, epoch_log >>

\* np.save(os.path.join(results_path, name), arr): the array, by its length
ResultPath(name, cell, lag) == << name, cell, lag >>

\* lines 239-269: the four loss histories, the plot of the training loss
\* against range(grad_iterations), the figure, line += 1
LagEnd ==
    /\ pc = "lag_end"
    /\ LET r1 == Write(results, ResultPath("TrainLoss_AllE", cell_name, z),
                       Len(train_allepochs_losses))
           r2 == Write(r1, ResultPath("TrainAvgLoss_AllE", cell_name, z),
                       Len(train_epochs_avg_losses))
           r3 == Write(r2, ResultPath("ValidLoss_AllE", cell_name, z),
                       Len(test_allepochs_losses))
           r4 == Write(r3, ResultPath("ValidAvgLoss_AllE", cell_name, z),
                       Len(test_epochs_avg_losses))
       IN  IF grad_iterations # Len(train_allepochs_losses)
           THEN /\ results' = r4
                /\ pc' = "error"
                /\ line' = line
           ELSE /\ results' =
                       Write(r4, ResultPath("Training_png", cell_name, z),
                             grad_iterations)
                /\ line' = line + 1
                /\ pc' = "for_z"
    /\ UNCHANGED << rng, cell_name, z, zpos, save_here, dataVars, model,
                    optimiser, min_loss, e, idx, grad_iterations, histVars,
                    train_loss_epoch_avg, test_loss_epoch_avg, train_loss,
                    test_loss, files, epoch_log >>

\* lines 271-281: the legend and the final figure
Finish ==
    /\ pc = "for_z"
    /\ zpos = Len(zs)
    /\ results' = Write(results, ResultPath("benchmark1_png", cell_name, None),
                        line)
    /\ pc' = "done"
    /\ UNCHANGED << rng, lagVars, dataVars, model, optimiser, min_loss, e, idx,
                    grad_iterations, histVars, train_loss_epoch_avg,
                    test_loss_epoch_avg, train_loss, test_loss, files,
                    epoch_log >>

Next ==
    \/ Begin
    \/ LagStart
    \/ GenerateStep
    \/ Split
    \/ Setup
    \/ EpochStart
    \/ TrainBatch
    \/ TrainEnd
    \/ TestBatch
    \/ EpochEnd
    \/ LagEnd
    \/ Finish

Spec == Init /\ [][Next]_vars

-----------------------------------------------------------------------------
(* generate_sample on its own: the sample loop of main() entered with any  *)
(* lag n in 0 .. MaxLag and any generator state                            *)

InitGen ==
    /\ pc = "gen"
    /\ rng \in RngStates
    /\ z \in 0 .. MaxLag
    /\ cell_name = None /\ zpos = None /\ line = None /\ save_here = None
    /\ inputs = << >> /\ outputs = << >>
    /\ inputs_train = None /\ inputs_test = None
    /\ outputs_train = None /\ outputs_test = None
    /\ training_loader = None /\ test_loader = None
    /\ model = None /\ optimiser = None /\ min_loss = None
    /\ e = None /\ idx = None /\ grad_iterations = None
    /\ train_allepochs_losses = None /\ test_allepochs_losses = None
    /\ train_epochs_avg_losses = None /\ test_epochs_avg_losses = None
    /\ train_loss_epoch_avg = None /\ test_loss_epoch_avg = None
    /\ train_loss = None /\ test_loss = None
    /\ files = << >>
    /\ results = << >>
    /\ epoch_log = << >>

NextGen == GenerateStep

SpecGen == InitGen /\ [][NextGen]_vars

-----------------------------------------------------------------------------
(* Properties *)

\* control is inside the epoch loop of the current lag
InEpochLoop == pc \in { "epoch", "train", "test" }
\* the evaluation pass of the current epoch has processed its last batch
EvalPassOver == pc = "test" /\ PassDone(test_loader, idx)

Below(x) == Less(x, Rat(Threshold, 1))

\* the minimum of a history of averages, np.inf for the empty history
RECURSIVE MinOf(_)
MinOf(h) ==
    IF h = << >> THEN Inf
    ELSE LET m == MinOf(SubSeq(h, 1, Len(h) - 1))
         IN  IF Less(h[Len(h)], m) THEN h[Len(h)] ELSE m

\* the 1-based position of the earliest entry of h that equals its minimum
EarliestMin(h) ==
    CHOOSE k \in 1 .. Len(h) :
        /\ ~Less(MinOf(h), h[k])
        /\ \A j \in 1 .. k - 1 : Less(MinOf(h), h[j])

\* the number of epochs the stopping rule allows for the history h
EpochsAllowed(h) ==
    IF \E k \in 1 .. Len(h) : Below(h[k])
    THEN CHOOSE k \in 1 .. Len(h) :
             Below(h[k]) /\ \A j \in 1 .. k - 1 : ~Below(h[j])
    ELSE epochs

\* C1: within a lag, the checkpoint file changes only in the step that ends
\* an epoch whose average test loss is strictly below the minimum of the
\* averages of the earlier epochs; an epoch that ends with an average equal
\* to or above that minimum leaves every checkpoint as it was.
C1_WriteOnlyOnStrictImprovement ==
    [][ /\ files' # files =>
              /\ EvalPassOver
              /\ Less(test_loss_epoch_avg, MinOf(test_epochs_avg_losses))
        /\ ( EvalPassOver
             /\ ~Less(test_loss_epoch_avg, MinOf(test_epochs_avg_losses)) )
           => files' = files ]_vars

\* an epoch has ended with an average equal to the running minimum and the
\* checkpoint still is the one of an earlier epoch
C1_Witness ==
    /\ pc \in { "epoch", "lag_end" }
    /\ Len(test_epochs_avg_losses) >= 2
    /\ LET h == test_epochs_avg_losses
           last == h[Len(h)]
           before == MinOf(SubSeq(h, 1, Len(h) - 1))
       IN  /\ ~Less(last, before) /\ ~Less(before, last)
           /\ files[save_here].epoch < Len(h) - 1

\* C2: while the epoch loop of a lag runs, no completed epoch has an average
\* test loss below the threshold and fewer than `epochs` epochs are complete;
\* when the loop is left, the number of epochs run is the position of the
\* first epoch below the threshold if there is one, else `epochs`, and the
\* batches processed are exactly those of that many epochs.
C2_HaltsAtThresholdOrBudget ==
    /\ InEpochLoop =>
          /\ \A k \in 1 .. Len(test_epochs_avg_losses) :
                 ~Below(test_epochs_avg_losses[k])
          /\ Len(test_epochs_avg_losses) < epochs
    /\ pc = "lag_end" =>
          LET ran == Len(test_epochs_avg_losses)
          IN  /\ ran = EpochsAllowed(test_epochs_avg_losses)
              /\ ran <= epochs
              /\ grad_iterations = ran * Len(training_loader)
              /\ Len(test_allepochs_losses) = ran * Len(test_loader)

\* a lag stopped at its second epoch, before the budget was used up
C2_Witness ==
    /\ pc = "lag_end"
    /\ Len(test_epochs_avg_losses) = 2
    /\ 2 < epochs
    /\ ~Below(test_epochs_avg_losses[1])
    /\ Below(test_epochs_avg_losses[2])

\* C3: after every completed epoch of a lag the lag's checkpoint exists and
\* its epoch field is the (0-based) index of the earliest epoch whose average
\* test loss equals the minimum over the epochs completed so far.
C3_CheckpointIsEarliestBest ==
    ( (InEpochLoop \/ pc = "lag_end") /\ Len(test_epochs_avg_losses) >= 1 ) =>
        /\ save_here \in DOMAIN files
        /\ files[save_here].epoch = EarliestMin(test_epochs_avg_losses) - 1
        /\ min_loss = MinOf(test_epochs_avg_losses)

\* three epochs are complete, the second improved on the first and the third
\* only equalled the second
C3_Witness ==
    /\ pc = "lag_end"
    /\ Len(test_epochs_avg_losses) = 3
    /\ Less(test_epochs_avg_losses[2], test_epochs_avg_losses[1])
    /\ test_epochs_avg_losses[3] = test_epochs_avg_losses[2]
    /\ files[save_here].epoch = 1

\* C4: every sample generated so far has its label equal to the first
\* element of its sequence, for every lag 1 .. MaxLag and generator state.
C4_LabelIsFirstElement ==
    /\ Len(outputs) = Len(inputs)
    /\ \A k \in 1 .. Len(inputs) : outputs[k] = inputs[k][1]

\* a full list of samples of lag >= 2 with a sample whose noise differs from
\* its label
C4_Witness ==
    /\ z >= 2
    /\ Len(inputs) = NumSamples
    /\ \E k \in 1 .. Len(inputs) : inputs[k][2] # inputs[k][1]

\* control is past the split of the current lag's samples
SplitDone == pc \in { "setup", "epoch", "train", "test", "lag_end" }

\* C5: the NumSamples samples of a lag are split into NumSamples - test_size
\* training samples followed by test_size test samples: the training part
\* followed by the test part is the whole array (so the parts share no index
\* and miss none), for the inputs and for the labels alike.
C5_SplitIsPartition ==
    SplitDone =>
        /\ Len(inputs) = NumSamples /\ Len(outputs) = NumSamples
        /\ Len(inputs_train) = NumSamples - test_size
        /\ Len(inputs_test) = test_size
        /\ Len(outputs_train) = Len(inputs_train)
        /\ Len(outputs_test) = Len(inputs_test)
        /\ inputs_train \o inputs_test = ExpandInputs(inputs)
        /\ outputs_train \o outputs_test = ExpandOutputs(outputs)

\* the split of a lag whose first test sample differs from the training
\* sample at the same offset
C5_Witness ==
    /\ pc = "setup"
    /\ Len(inputs_train) > Len(inputs_test)
    /\ Len(inputs_test) >= 1
    /\ inputs_train[1] # inputs_test[1]
    /\ inputs_test[1] = ExpandInputs(inputs)[NumSamples - test_size + 1]

\* the batches of one full epoch, in order: the training pass, then the
\* evaluation pass
FullEpoch ==
    [k \in 1 .. Len(training_loader) |->
        [pass |-> "train", batch |-> training_loader[k]]]
    \o [k \in 1 .. Len(test_loader) |->
        [pass |-> "test", batch |-> test_loader[k]]]

\* C6: within an epoch the batches processed so far are an initial part of
\* (all training batches in order, then all test batches in order); the
\* optimiser has stepped once per training batch and does not step during
\* the evaluation pass; and the checkpoint is written, and the epoch loop
\* left, only when that whole sequence has been processed.
C6_TrainPassThenEvalPass ==
    /\ [] ( pc \in { "train", "test" } =>
              /\ Len(epoch_log) <= Len(FullEpoch)
              /\ epoch_log = SubSeq(FullEpoch, 1, Len(epoch_log))
              /\ pc = "test" =>
                     /\ Len(epoch_log) >= Len(training_loader)
                     /\ optimiser.steps = (e + 1) * Len(training_loader)
                     /\ model.updates = optimiser.steps )
    /\ [][ /\ pc = "test" => optimiser' = optimiser
           /\ ( files' # files \/ (InEpochLoop /\ ~InEpochLoop') )
              => epoch_log = FullEpoch ]_vars

\* an evaluation pass is over after more than one training and more than
\* one test batch
C6_Witness ==
    /\ EvalPassOver
    /\ epoch_log = FullEpoch
    /\ Len(training_loader) >= 2
    /\ Len(test_loader) >= 2
    /\ e >= 1

InLag == pc \in { "gen", "setup", "epoch", "train", "test", "lag_end" }

\* C8: the lags are taken in the order 5, 100, 300; each lag has its own
\* checkpoint path; min_loss is np.inf when the first epoch of a lag starts;
\* and a step changes no checkpoint other than the current lag's, so that at
\* the end there is one checkpoint per lag.
C8_LagsAreIsolated ==
    /\ [] ( /\ InLag =>
                /\ z = << 5, 100, 300 >>[line + 1]
                /\ zpos = line + 1
                /\ save_here = CheckpointPath(cell_name, z)
                /\ DOMAIN files \subseteq
                       { CheckpointPath(cell_name, zs[k]) : k \in 1 .. zpos }
            /\ (pc = "epoch" /\ e = 0) => min_loss = Inf
            /\ pc = "done" =>
                /\ line = 3
                /\ Cardinality(DOMAIN files) = 3 )
    /\ [][ /\ DOMAIN files \subseteq DOMAIN files'
           /\ \A p \in DOMAIN files' :
                 p # save_here =>
                    p \in DOMAIN files /\ files'[p] = files[p] ]_vars

\* the last lag has written its checkpoint beside those of the two before
C8_Witness ==
    /\ pc = "lag_end"
    /\ z = 300
    /\ Cardinality(DOMAIN files) = 3
    /\ files[save_here].epoch >= 1

\* C9: when the epoch loop of a lag is left because the last epoch's average
\* test loss is below the threshold, the lag's checkpoint is the one written
\* in that epoch: its epoch field is the index of the last epoch run.
C9_EarlyStopEpochIsCheckpointed ==
    ( pc = "lag_end"
      /\ Len(test_epochs_avg_losses) >= 1
      /\ Below(test_epochs_avg_losses[Len(test_epochs_avg_losses)]) ) =>
        /\ save_here \in DOMAIN files
        /\ files[save_here].epoch = e
        /\ e = Len(test_epochs_avg_losses) - 1
        /\ files[save_here].model_state_dict = model.updates
        /\ min_loss = test_epochs_avg_losses[Len(test_epochs_avg_losses)]

\* a lag stopped early at its third epoch after a checkpoint of an earlier one
C9_Witness ==
    /\ pc = "lag_end"
    /\ Len(test_epochs_avg_losses) = 3
    /\ Less(test_epochs_avg_losses[2], test_epochs_avg_losses[1])
    /\ Below(test_epochs_avg_losses[3])
    /\ files[save_here].epoch = 2

\* C10: in the epoch loop and after it, grad_iterations is the length of the
\* per-step training history; the two per-epoch histories have one entry per
\* completed epoch; all are empty or zero when the first epoch of a lag
\* starts; and the plot of the history against range(grad_iterations) does
\* not fail.
C10_HistoriesInStep ==
    /\ pc # "error"
    /\ (InEpochLoop \/ pc = "lag_end") =>
          grad_iterations = Len(train_allepochs_losses)
    /\ pc \in { "epoch", "train" } =>
          /\ Len(train_epochs_avg_losses) = e
          /\ Len(test_epochs_avg_losses) = e
    /\ pc = "train" => grad_iterations = e * Len(training_loader) + idx
    /\ pc = "test" =>
          /\ Len(train_epochs_avg_losses) = e + 1
          /\ Len(test_epochs_avg_losses) = e
          /\ Len(test_allepochs_losses) = e * Len(test_loader) + idx
    /\ pc = "lag_end" =>
          /\ Len(train_epochs_avg_losses) = e + 1
          /\ Len(test_epochs_avg_losses) = e + 1
    /\ (pc = "epoch" /\ e = 0) =>
          /\ grad_iterations = 0
          /\ train_allepochs_losses = << >>
          /\ test_allepochs_losses = << >>
          /\ train_epochs_avg_losses = << >>
          /\ test_epochs_avg_losses = << >>

\* the second lag is in its second epoch, after the histories of the first
\* lag were dropped
C10_Witness ==
    /\ pc = "train"
    /\ zpos = 2
    /\ e = 1
    /\ idx = 1
    /\ grad_iterations = Len(training_loader) + 1

====
